---- MODULE Spec2Model ----
(***************************************************************************)
(* dynamodb-autoincrement: the counter-advance protocol.                   *)
(*                                                                         *)
(* BaseDynamoDBAutoIncrement.put is the retry loop: it calls next(item),   *)
(* which reads the counter record and builds the conditional writes, and   *)
(* commits them in one transaction (safe) or as independent parallel puts  *)
(* (props.dangerously).  The store is DynamoDB: tables of items with a key *)
(* schema, conditional puts, and all-or-nothing transactions.              *)
(***************************************************************************)
EXTENDS Integers, FiniteSets, Sequences, TLC

\* ------------------------------------------------------------------ bounds

\* number of put calls issued against one instance
NumCallers == 2

\* largest initialValue the instance is configured with (0 .. MaxInitialValue)
MaxInitialValue == 1

\* largest counter value seeded in the counter table before the first put
MaxLastID == 2

\* number of getLast calls made beside the puts
MaxPeeks == 2

\* number of counter reads (loop iterations) followed for a call that keeps
\* being cancelled
MaxReads == 3

\* number of puts followed for each other instance sharing the counter table
MaxOtherPuts == 1

Callers == 1..NumCallers

\* ------------------------------------------------------------ store: items

\* `undefined`: the result of a read that finds nothing; a found value v is {v}
undefined == {}

\* the jest-dynamodb tables and their key attributes
KeySchema ==
  [autoincrement |-> {"tableName"},
   widgets       |-> {"widgetID"},
   widgetHistory |-> {"widgetID", "version"}]

TableNames == DOMAIN KeySchema

\* { ...a, ...b }: object spread, the later source wins
Spread(a, b) ==
  [k \in (DOMAIN a) \cup (DOMAIN b) |-> IF k \in DOMAIN b THEN b[k] ELSE a[k]]

\* { [name]: value }
Attr(name, value) == [k \in {name} |-> value]

\* the item with no attributes, put({})
EmptyItem == [k \in {} |-> 0]

\* 'Hello world! '.repeat(32000): more than DynamoDB's 400 KB item limit
HugeDescription == "Hello world! x 32000"

\* the items the callers pass to put: empty, a widget, a widget over the size
\* limit, and one that already carries the assigned attribute
CallerItems ==
  { EmptyItem,
    [widgetName |-> "runcible spoon"],
    [widgetName |-> "runcible spoon", description |-> HugeDescription],
    [widgetID |-> 42] }

\* the key attributes of an item of table t
KeyOf(t, it) == [k \in KeySchema[t] \cap DOMAIN it |-> it[k]]

\* the item of table t stored under the key of `it`: {} or {item}
Existing(tbls, t, it) == { x \in tbls[t] : KeyOf(t, x) = KeyOf(t, it) }

\* a condition expression over one attribute
NoCondition == [kind |-> "none", attr |-> "", value |-> 0]
\* mutant: the attribute_not_exists condition is left out of the request
AttributeNotExistsDropped(a) == NoCondition

AttributeNotExists(a) == [kind |-> "attribute_not_exists", attr |-> a, value |-> 0]
\* mutant: '#counter = :nextCounter', the condition names the new value
AttributeEqualsNext(a, v) == [kind |-> "equals", attr |-> a, value |-> v + 1]

AttributeEquals(a, v) == [kind |-> "equals", attr |-> a, value |-> v]

\* 'attribute_not_exists(#counter) OR #counter <> :counter'
NotExistsOrDiffers(a, v) == [kind |-> "not_exists_or_differs", attr |-> a, value |-> v]

\* the store's evaluation of a condition against the stored item (if any)
ConditionHolds(cond, existing) ==
  CASE cond.kind = "none" -> TRUE
    [] cond.kind = "attribute_not_exists" ->
         \A x \in existing : cond.attr \notin DOMAIN x
    [] cond.kind = "equals" ->
         \E x \in existing : cond.attr \in DOMAIN x /\ x[cond.attr] = cond.value
    [] cond.kind = "not_exists_or_differs" ->
         \A x \in existing : cond.attr \in DOMAIN x => x[cond.attr] # cond.value

\* 'Item size has exceeded the maximum allowed size'
ItemTooLarge(it) ==
  "description" \in DOMAIN it /\ it.description = HugeDescription

\* the store rejects a put it cannot hold: an item over the size limit or
\* one that lacks a key attribute of its table
Invalid(p) ==
  \/ ItemTooLarge(p.Item)
  \/ ~(KeySchema[p.TableName] \subseteq DOMAIN p.Item)

\* the table contents after a put: the item replaces the one under its key
ApplyPut(tbls, p) ==
  [tbls EXCEPT ![p.TableName] =
     (@ \ Existing(tbls, p.TableName, p.Item)) \cup {p.Item}]

RECURSIVE ApplyPuts(_, _)
ApplyPuts(tbls, ps) ==
  IF ps = <<>> THEN tbls
  ELSE ApplyPuts(ApplyPut(tbls, Head(ps)), Tail(ps))

\* two puts of one request address the same item
SameItem(p, q) ==
  p.TableName = q.TableName /\ KeyOf(p.TableName, p.Item) = KeyOf(q.TableName, q.Item)

\* doc.put(p): the outcome of one conditional put against the tables
DocPut(tbls, p) ==
  IF Invalid(p) THEN "ValidationException"
  ELSE IF ~ConditionHolds(p.Condition, Existing(tbls, p.TableName, p.Item))
       THEN "ConditionalCheckFailedException"
       ELSE "ok"

\* doc.transactWrite({TransactItems: ps}): the request is validated, then every
\* condition is evaluated against the tables as they are, all or nothing
TransactWrite(tbls, ps) ==
  IF \/ \E i \in DOMAIN ps : Invalid(ps[i])
     \/ \E i, j \in DOMAIN ps : i # j /\ SameItem(ps[i], ps[j])
  THEN "ValidationException"
  ELSE IF \E i \in DOMAIN ps :
            ~ConditionHolds(ps[i].Condition,
                            Existing(tbls, ps[i].TableName, ps[i].Item))
       THEN "TransactionCanceledException"
       ELSE "ok"

\* ------------------------------------------------- DynamoDBAutoIncrement

\* #getLast(): the counter attribute of the counter record, or undefined
getLast(p, tbls) ==
  LET t == IF p.counterTableCopyItem THEN p.tableName ELSE p.counterTableName
  IN  { x[p.attributeName] :
          x \in { y \in tbls[t] : /\ KeyOf(t, y) = p.counterTableKey
                                  /\ p.attributeName \in DOMAIN y } }

\* `delete item[name]`
Delete(it, name) == [k \in (DOMAIN it) \ {name} |-> it[k]]

\* mutant: next returns one more than the value its write-set installs
nextOffByOne(p, it, counter, existingUntrackedEntry) ==
  LET c == CHOOSE v \in counter : TRUE
      installed == IF counter = undefined THEN p.initialValue ELSE c + 1
  IN  [puts |->
         << [TableName |-> p.counterTableName,
             Item      |-> Spread(p.counterTableKey, Attr(p.attributeName, installed)),
             Condition |-> IF counter = undefined
                           THEN [kind |-> "attribute_not_exists",
                                 attr |-> p.attributeName, value |-> 0]
                           ELSE [kind |-> "equals",
                                 attr |-> p.attributeName, value |-> c]],
            [TableName |-> p.tableName,
             Item      |-> Spread(it, Attr(p.attributeName, installed)),
             Condition |-> [kind |-> "attribute_not_exists",
                            attr |-> p.attributeName, value |-> 0]] >>,
       nextCounter |-> installed + 1]

\* mutant: `counter - 1` for `counter + 1`
nextDecrement(p, it, counter, existingUntrackedEntry) ==
  LET c == CHOOSE v \in counter : TRUE
      installed == IF counter = undefined THEN p.initialValue ELSE c - 1
  IN  [puts |->
         << [TableName |-> p.counterTableName,
             Item      |-> Spread(p.counterTableKey, Attr(p.attributeName, installed)),
             Condition |-> IF counter = undefined
                           THEN [kind |-> "attribute_not_exists",
                                 attr |-> p.attributeName, value |-> 0]
                           ELSE [kind |-> "equals",
                                 attr |-> p.attributeName, value |-> c]],
            [TableName |-> p.tableName,
             Item      |-> Spread(it, Attr(p.attributeName, installed)),
             Condition |-> [kind |-> "attribute_not_exists",
                            attr |-> p.attributeName, value |-> 0]] >>,
       nextCounter |-> installed]

\* mutant: the counter record is written under the target table's name, not
\* under counterTableKey
nextKeyedByTable(p, it, counter, existingUntrackedEntry) ==
  LET c == CHOOSE v \in counter : TRUE
      installed == IF counter = undefined THEN p.initialValue ELSE c + 1
  IN  [puts |->
         << [TableName |-> p.counterTableName,
             Item      |-> Spread([tableName |-> p.tableName],
                                  Attr(p.attributeName, installed)),
             Condition |-> IF counter = undefined
                           THEN [kind |-> "attribute_not_exists",
                                 attr |-> p.attributeName, value |-> 0]
                           ELSE [kind |-> "equals",
                                 attr |-> p.attributeName, value |-> c]],
            [TableName |-> p.tableName,
             Item      |-> Spread(it, Attr(p.attributeName, installed)),
             Condition |-> [kind |-> "attribute_not_exists",
                            attr |-> p.attributeName, value |-> 0]] >>,
       nextCounter |-> installed]

\* next(item) after its reads: the write-set and the value it installs
next(p, it, counter, existingUntrackedEntry) ==
  LET c == CHOOSE v \in counter : TRUE
      nextCounter ==
        IF counter = undefined
        THEN IF existingUntrackedEntry # undefined
             THEN p.initialValue + 1
             ELSE p.initialValue
        ELSE c + 1
      ConditionExpression ==
        IF counter = undefined
        THEN AttributeNotExists(p.attributeName)
        ELSE AttributeEquals(p.attributeName, c)
      untractedEntryPutCommandInput ==
        IF counter = undefined /\ existingUntrackedEntry # undefined
        THEN << [TableName |-> p.counterTableName,
                 Item      |-> Spread(CHOOSE e \in existingUntrackedEntry : TRUE,
                                      Attr(p.attributeName, p.initialValue)),
                 Condition |-> NoCondition] >>
        ELSE << >>
      item2 == IF p.counterTableCopyItem THEN Delete(it, p.attributeName) ELSE it
      counterTableItem ==
        Spread(Spread(p.counterTableKey, Attr(p.attributeName, nextCounter)),
               IF p.counterTableCopyItem THEN item2 ELSE EmptyItem)
  IN  [puts |->
         << [TableName |-> p.counterTableName,
             Item      |-> counterTableItem,
             Condition |-> ConditionExpression],
            [TableName |-> p.tableName,
             Item      |-> Spread(item2, Attr(p.attributeName, nextCounter)),
             Condition |-> AttributeNotExists(p.attributeName)] >>
         \o untractedEntryPutCommandInput,
       nextCounter |-> nextCounter]

\* ------------------------------------------- DynamoDBHistoryAutoIncrement

\* the instance of the history tests: the current record lives in `widgets`
\* under { widgetID: 1 }, its versions in `widgetHistory`
HistoryConfigurations ==
  [doc                  : {"doc"},
   counterTableName     : {"widgets"},
   counterTableKey      : {[widgetID |-> 1]},
   attributeName        : {"version"},
   tableName            : {"widgetHistory"},
   initialValue         : 0..MaxInitialValue,
   dangerously          : BOOLEAN,
   counterTableCopyItem : {FALSE}]

\* the items the history tests pass to put: empty, a widget, and a widget
\* that already carries the tracked attribute
HistoryItems ==
  { EmptyItem,
    [name |-> "Handy Widget", description |-> "Does Everything!"],
    [name |-> "Handy Widget", description |-> "Does Everything!", version |-> 3] }

\* the current record the tests insert before the first put, without a version
UntrackedItem ==
  [widgetID |-> 1, name |-> "Handy Widget", description |-> "Does something"]

\* get(): the current record under the counter key, {} or {item}
get(p, tbls) == Existing(tbls, p.counterTableName, p.counterTableKey)

\* mutant: the bootstrap rule is applied whenever the record has no version,
\* also when there is no record
nextHistoryAlwaysBootstraps(p, it, existingItem) ==
  LET nextCounter ==
        IF \E x \in existingItem : p.attributeName \in DOMAIN x
        THEN (CHOOSE x \in existingItem : TRUE)[p.attributeName] + 1
        ELSE p.initialValue + 1
      Item == Spread(Spread(it, p.counterTableKey), Attr(p.attributeName, nextCounter))
  IN  [puts |->
         << [TableName |-> p.tableName, Item |-> Item,
             Condition |-> [kind |-> "attribute_not_exists",
                            attr |-> p.attributeName, value |-> 0]],
            [TableName |-> p.counterTableName, Item |-> Item,
             Condition |-> [kind |-> "not_exists_or_differs",
                            attr |-> p.attributeName, value |-> nextCounter]] >>
         \o (IF \E x \in existingItem : p.attributeName \in DOMAIN x
             THEN << >>
             ELSE << [TableName |-> p.tableName,
                      Item      |-> Spread(Spread(EmptyItem, p.counterTableKey),
                                           Attr(p.attributeName, p.initialValue)),
                      Condition |-> [kind |-> "none", attr |-> "", value |-> 0]] >>),
       nextCounter |-> nextCounter]

\* mutant: `{ [attributeName]: nextCounter, ...item }`, the caller's value of
\* the tracked attribute is spread over the assigned one
nextHistoryCallerWins(p, it, existingItem) ==
  LET nextCounter ==
        IF \E x \in existingItem : p.attributeName \in DOMAIN x
        THEN (CHOOSE x \in existingItem : TRUE)[p.attributeName] + 1
        ELSE IF existingItem # {} THEN p.initialValue + 1 ELSE p.initialValue
      Item == [k \in {p.attributeName} \cup DOMAIN it \cup DOMAIN p.counterTableKey |->
                 IF k \in DOMAIN p.counterTableKey THEN p.counterTableKey[k]
                 ELSE IF k \in DOMAIN it THEN it[k] ELSE nextCounter]
  IN  [puts |->
         << [TableName |-> p.tableName, Item |-> Item,
             Condition |-> [kind |-> "attribute_not_exists",
                            attr |-> p.attributeName, value |-> 0]],
            [TableName |-> p.counterTableName, Item |-> Item,
             Condition |-> [kind |-> "not_exists_or_differs",
                            attr |-> p.attributeName, value |-> nextCounter]] >>
         \o (IF existingItem # {} /\ ~\E x \in existingItem : p.attributeName \in DOMAIN x
             THEN << [TableName |-> p.tableName,
                      Item      |-> [k \in {p.attributeName}
                                            \cup DOMAIN (CHOOSE e \in existingItem : TRUE) |->
                                       IF k = p.attributeName THEN p.initialValue
                                       ELSE (CHOOSE e \in existingItem : TRUE)[k]],
                      Condition |-> [kind |-> "none", attr |-> "", value |-> 0]] >>
             ELSE << >>),
       nextCounter |-> nextCounter]

\* next(item) of the history counter after its read of the current record:
\* the new version, written to the history log and as the new current record,
\* and the bootstrap write for a current record that has no version yet
nextHistory(p, it, existingItem) ==
  LET counter == { x[p.attributeName] :
                     x \in { y \in existingItem : p.attributeName \in DOMAIN y } }
      nextCounter ==
        IF counter = undefined
        THEN IF existingItem # undefined
             THEN p.initialValue + 1
             ELSE p.initialValue
        ELSE (CHOOSE v \in counter : TRUE) + 1
      Item == Spread(Spread(it, p.counterTableKey), Attr(p.attributeName, nextCounter))
      bootstrap ==
        IF counter = undefined /\ existingItem # undefined
        THEN << [TableName |-> p.tableName,
                 Item      |-> Spread(CHOOSE e \in existingItem : TRUE,
                                      Attr(p.attributeName, p.initialValue)),
                 Condition |-> NoCondition] >>
        ELSE << >>
  IN  [puts |->
         << [TableName |-> p.tableName,
             Item      |-> Item,
             Condition |-> AttributeNotExists(p.attributeName)],
            [TableName |-> p.counterTableName,
             Item      |-> Item,
             Condition |-> NotExistsOrDiffers(p.attributeName, nextCounter)] >>
         \o bootstrap,
       nextCounter |-> nextCounter]

\* ------------------------------------------------------------------ state

VARIABLES
  props,        \* the instance's DynamoDBAutoIncrementProps
  tables,       \* the store: table name -> set of items
  pc,           \* per put call: idle, next, commit, returned, failed
  item,         \* per put call: the item passed to put
  counter,      \* per put call: next()'s local `counter`
  puts,         \* per put call: the write-set next() returned
  nextCounter,  \* per put call: the value next() returned
  settled,      \* per put call: the outcome of each write of the write-set
  error,        \* per put call: the exception put threw
  result,       \* per put call: the value put returned
  lastID,       \* history: the counter value the store was seeded with
  reads,        \* history: per put call, the number of counter reads
  log,          \* history: the counter-table writes applied, in commit order
  initialItem,  \* history: the record at the counter key before the first put
  peeks         \* history: the getLast calls made, each with what it returned

vars == << props, tables, pc, item, counter, puts, nextCounter, settled,
           error, result, lastID, reads, log, initialItem, peeks >>

\* the configurations of the test suite: counter table `autoincrement`,
\* target table `widgets`, attribute `widgetID`
Configurations ==
  [doc                  : {"doc"},
   counterTableName     : {"autoincrement"},
   counterTableKey      : {[tableName |-> "widgets"]},
   attributeName        : {"widgetID"},
   tableName            : {"widgets"},
   initialValue         : 0..MaxInitialValue,
   dangerously          : BOOLEAN,
   counterTableCopyItem : {FALSE}]

\* the store before the first put: empty, or the counter record seeded with
\* { tableName: 'widgets', widgetID: lastID }
SeededTables(p, last) ==
  [t \in TableNames |->
     IF t = p.counterTableName
     THEN { Spread(p.counterTableKey, Attr(p.attributeName, k)) : k \in last }
     ELSE {}]

Init ==
  /\ props \in Configurations
  /\ lastID \in {undefined} \cup { {k} : k \in 1..MaxLastID }
  /\ tables = SeededTables(props, lastID)
  /\ pc = [c \in Callers |-> "idle"]
  /\ item = [c \in Callers |-> EmptyItem]
  /\ counter = [c \in Callers |-> undefined]
  /\ puts = [c \in Callers |-> << >>]
  /\ nextCounter = [c \in Callers |-> 0]
  /\ settled = [c \in Callers |-> << >>]
  /\ error = [c \in Callers |-> "none"]
  /\ result = [c \in Callers |-> undefined]
  /\ reads = [c \in Callers |-> 0]
  /\ log = << >>
  /\ initialItem = tables[props.counterTableName]
  /\ peeks = << >>

\* ---------------------------------------------------------------- actions

\* a caller invokes put(item)
Put(c) ==
  /\ pc[c] = "idle"
  /\ \E it \in CallerItems : item' = [item EXCEPT ![c] = it]
  /\ pc' = [pc EXCEPT ![c] = "next"]
  /\ UNCHANGED << props, tables, counter, puts, nextCounter, settled, error,
                  result, lastID, reads, log, initialItem, peeks >>

\* one loop iteration's `await this.next(item)`: read the counter, build the
\* write-set
PutNext(c) ==
  /\ pc[c] = "next"
  /\ LET read == getLast(props, tables)
         n == next(props, item[c], read, undefined)
     IN  /\ counter' = [counter EXCEPT ![c] = read]
         /\ puts' = [puts EXCEPT ![c] = n.puts]
         /\ nextCounter' = [nextCounter EXCEPT ![c] = n.nextCounter]
         /\ settled' = [settled EXCEPT ![c] = [i \in DOMAIN n.puts |-> "pending"]]
  /\ reads' = [reads EXCEPT ![c] = @ + 1]
  /\ pc' = [pc EXCEPT ![c] = "commit"]
  /\ UNCHANGED << props, tables, item, error, result, lastID, log,
                  initialItem, peeks >>

\* the entry a counter-table write adds to the commit log
Logged(c, p) ==
  IF p.TableName = props.counterTableName
  THEN << [caller |-> c, value |-> p.Item[props.attributeName]] >>
  ELSE << >>

\* mutant: the unsafe branch is taken whatever the flag says
DangerouslyAlways == TRUE

\* `if (this.props.dangerously)`
Dangerously == props.dangerously

\* `e instanceof TransactionCanceledException`
Conflict(e) == e = "TransactionCanceledException"

\* mutant: the cancelled attempt falls through to `return nextCounter`
ContinueSwallowed(c) ==
  /\ pc' = [pc EXCEPT ![c] = "returned"]
  /\ result' = [result EXCEPT ![c] = {nextCounter[c]}]
  /\ UNCHANGED error

\* mutant: the cancelled transaction is thrown to the caller
ContinueThrown(c) ==
  /\ pc' = [pc EXCEPT ![c] = "failed"]
  /\ error' = [error EXCEPT ![c] = "TransactionCanceledException"]
  /\ UNCHANGED result

\* mutant: the cancelled write-set is submitted again without a new read
ContinueStale(c) ==
  /\ pc' = [pc EXCEPT ![c] = "commit"]
  /\ UNCHANGED << error, result >>

\* `continue`: the attempt is dropped and the loop starts over
Continue(c) ==
  /\ pc' = [pc EXCEPT ![c] = "next"]
  /\ UNCHANGED << error, result >>

\* mutant: the exception is replaced by a generic one
ThrowWrapped(c, e) ==
  /\ pc' = [pc EXCEPT ![c] = "failed"]
  /\ error' = [error EXCEPT ![c] = "Error"]
  /\ UNCHANGED result

\* mutant: the rejection restarts the loop, as a cancelled transaction does
ThrowRetried(c, e) ==
  /\ pc' = [pc EXCEPT ![c] = "next"]
  /\ UNCHANGED << error, result >>

\* `throw e`: put ends with the store's exception
Throw(c, e) ==
  /\ pc' = [pc EXCEPT ![c] = "failed"]
  /\ error' = [error EXCEPT ![c] = e]
  /\ UNCHANGED result

\* mutant: put returns the counter it read, not the one it installed
ReturnCounter(c) ==
  /\ pc' = [pc EXCEPT ![c] = "returned"]
  /\ result' = [result EXCEPT ![c] = counter[c]]
  /\ UNCHANGED error

\* `return nextCounter`
Return(c) ==
  /\ pc' = [pc EXCEPT ![c] = "returned"]
  /\ result' = [result EXCEPT ![c] = {nextCounter[c]}]
  /\ UNCHANGED error

\* safe strategy: the write-set as one transaction; a cancelled transaction
\* restarts the loop, any other exception is thrown, success returns
PutTransactWrite(c) ==
  /\ pc[c] = "commit"
  /\ ~Dangerously
  /\ LET outcome == TransactWrite(tables, puts[c])
     IN  /\ settled' = [settled EXCEPT ![c] = [i \in DOMAIN @ |-> outcome]]
         /\ CASE outcome = "ok" ->
                   /\ tables' = ApplyPuts(tables, puts[c])
                   /\ log' = log \o Logged(c, puts[c][1])
                   /\ Return(c)
              [] outcome # "ok" /\ Conflict(outcome) ->
                   /\ Continue(c)
                   /\ UNCHANGED << tables, log >>
              [] OTHER ->
                   /\ Throw(c, outcome)
                   /\ UNCHANGED << tables, log >>
  /\ UNCHANGED << props, item, counter, puts, nextCounter, lastID, reads,
                  initialItem, peeks >>

\* mutant: Promise.allSettled, the call ends once every write has settled
PutDangerouslyAllSettled(c, i) ==
  /\ pc[c] = "commit"
  /\ props.dangerously
  /\ i \in DOMAIN puts[c]
  /\ settled[c][i] = "pending"
  /\ LET outcome == DocPut(tables, puts[c][i])
         after == [settled[c] EXCEPT ![i] = outcome]
     IN  /\ settled' = [settled EXCEPT ![c] = after]
         /\ IF outcome = "ok"
            THEN /\ tables' = ApplyPut(tables, puts[c][i])
                 /\ log' = log \o (IF puts[c][i].TableName = props.counterTableName
                                   THEN << [caller |-> c,
                                            value |-> puts[c][i].Item[props.attributeName]] >>
                                   ELSE << >>)
            ELSE UNCHANGED << tables, log >>
         /\ IF \E j \in DOMAIN after : after[j] = "pending"
            THEN UNCHANGED << pc, error, result >>
            ELSE IF \A j \in DOMAIN after : after[j] = "ok"
                 THEN /\ pc' = [pc EXCEPT ![c] = "returned"]
                      /\ result' = [result EXCEPT ![c] = {nextCounter[c]}]
                      /\ UNCHANGED error
                 ELSE /\ pc' = [pc EXCEPT ![c] = "failed"]
                      /\ error' = [error EXCEPT ![c] =
                                     after[CHOOSE j \in DOMAIN after : after[j] # "ok"]]
                      /\ UNCHANGED result
  /\ UNCHANGED << props, item, counter, puts, nextCounter, lastID, reads,
                  initialItem, peeks >>

\* unsafe strategy: Promise.all over independent puts.  One write of the
\* write-set reaches the store; the call rejects with the first rejection and
\* returns once every write is fulfilled.  A write still in flight when the
\* call has rejected reaches the store all the same.
PutDangerously(c, i) ==
  /\ pc[c] \in {"commit", "failed"}
  /\ Dangerously
  /\ i \in DOMAIN puts[c]
  /\ settled[c][i] = "pending"
  /\ LET outcome == DocPut(tables, puts[c][i])
         after == [settled[c] EXCEPT ![i] = outcome]
     IN  /\ settled' = [settled EXCEPT ![c] = after]
         /\ IF outcome = "ok"
            THEN /\ tables' = ApplyPut(tables, puts[c][i])
                 /\ log' = log \o Logged(c, puts[c][i])
            ELSE UNCHANGED << tables, log >>
         /\ CASE pc[c] = "commit" /\ outcome # "ok" -> Throw(c, outcome)
              [] pc[c] = "commit" /\ \A j \in DOMAIN after : after[j] = "ok" ->
                   Return(c)
              [] OTHER -> UNCHANGED << pc, error, result >>
  /\ UNCHANGED << props, item, counter, puts, nextCounter, lastID, reads,
                  initialItem, peeks >>

Next ==
  \E c \in Callers :
    \/ Put(c)
    \/ PutNext(c)
    \/ PutTransactWrite(c)
    \/ \E i \in 1..3 : PutDangerously(c, i)

Spec == Init /\ [][Next]_vars

\* strictly sequential callers: each put is invoked once the calls before it
\* have returned or thrown
PutSerial(c) ==
  /\ \A d \in Callers : d < c => pc[d] \in {"returned", "failed"}
  /\ Put(c)

NextSerial ==
  \E c \in Callers :
    \/ PutSerial(c)
    \/ PutNext(c)
    \/ PutTransactWrite(c)
    \/ \E i \in 1..3 : PutDangerously(c, i)

SpecSerial == Init /\ [][NextSerial]_vars

\* ------------------------------------------------------- safe strategy

\* the store that safe puts of {} reach from empty: nothing, or the counter
\* record at k with one target record for each of initialValue .. k
SafeSeededTables(p, last) ==
  [t \in TableNames |->
     CASE t = p.counterTableName ->
            { Spread(p.counterTableKey, Attr(p.attributeName, k)) : k \in last }
       [] t = p.tableName ->
            UNION { { Spread(EmptyItem, Attr(p.attributeName, j)) : j \in p.initialValue..k } :
                    k \in last }
       [] OTHER -> {}]

InitSafe ==
  /\ props \in { p \in Configurations : ~p.dangerously }
  /\ lastID \in {undefined} \cup { {k} : k \in 1..MaxLastID }
  /\ tables = SafeSeededTables(props, lastID)
  /\ pc = [c \in Callers |-> "idle"]
  /\ item = [c \in Callers |-> EmptyItem]
  /\ counter = [c \in Callers |-> undefined]
  /\ puts = [c \in Callers |-> << >>]
  /\ nextCounter = [c \in Callers |-> 0]
  /\ settled = [c \in Callers |-> << >>]
  /\ error = [c \in Callers |-> "none"]
  /\ result = [c \in Callers |-> undefined]
  /\ reads = [c \in Callers |-> 0]
  /\ log = << >>
  /\ initialItem = tables[props.counterTableName]
  /\ peeks = << >>

\* a caller invokes put(item) with a widget the store accepts or one over the
\* size limit
PutWidget(c) ==
  /\ pc[c] = "idle"
  /\ \E it \in { [widgetName |-> "runcible spoon"],
                  [widgetName |-> "runcible spoon", description |-> HugeDescription] } :
       item' = [item EXCEPT ![c] = it]
  /\ pc' = [pc EXCEPT ![c] = "next"]
  /\ UNCHANGED << props, tables, counter, puts, nextCounter, settled, error,
                  result, lastID, reads, log, initialItem, peeks >>

NextSafe ==
  \E c \in Callers :
    \/ PutWidget(c)
    \/ PutNext(c)
    \/ PutTransactWrite(c)

SpecSafe == InitSafe /\ [][NextSafe]_vars

\* a step of the loop of call c: each await of a call in progress resolves
LoopStep(c) == PutNext(c) \/ PutTransactWrite(c)

\* the event loop runs every call whose await has resolved
SpecSafeFair == SpecSafe /\ \A c \in Callers : WF_vars(LoopStep(c))

\* ---------------------------------------------- target record in the way

\* the value the counter issues next: initialValue when absent, k + 1 at k
IssuedNext(p, last) ==
  IF last = undefined THEN p.initialValue ELSE (CHOOSE k \in last : TRUE) + 1

\* a store in which the target table already holds a record at the value the
\* counter issues next
CollidingTables(p, last) ==
  [t \in TableNames |->
     CASE t = p.counterTableName ->
            { Spread(p.counterTableKey, Attr(p.attributeName, k)) : k \in last }
       [] t = p.tableName -> { Attr(p.attributeName, IssuedNext(p, last)) }
       [] OTHER -> {}]

InitColliding ==
  /\ props \in { p \in Configurations : ~p.dangerously }
  /\ lastID \in {undefined} \cup { {k} : k \in 1..MaxLastID }
  /\ tables = CollidingTables(props, lastID)
  /\ pc = [c \in Callers |-> "idle"]
  /\ item = [c \in Callers |-> EmptyItem]
  /\ counter = [c \in Callers |-> undefined]
  /\ puts = [c \in Callers |-> << >>]
  /\ nextCounter = [c \in Callers |-> 0]
  /\ settled = [c \in Callers |-> << >>]
  /\ error = [c \in Callers |-> "none"]
  /\ result = [c \in Callers |-> undefined]
  /\ reads = [c \in Callers |-> 0]
  /\ log = << >>
  /\ initialItem = tables[props.counterTableName]
  /\ peeks = << >>

\* `await this.next(item)`, followed for the first MaxReads iterations
PutNextBounded(c) ==
  /\ reads[c] < MaxReads
  /\ PutNext(c)

NextColliding ==
  \E c \in Callers :
    \/ PutWidget(c)
    \/ PutNextBounded(c)
    \/ PutTransactWrite(c)

SpecColliding == InitColliding /\ [][NextColliding]_vars

\* ------------------------- secondary increment: update and getLastPerItem

\* `x ?? d`
OrElse(x, d) == IF x = undefined THEN d ELSE CHOOSE v \in x : TRUE

\* Number.prototype.toString() of a small natural
toString(n) == << "0", "1", "2", "3", "4", "5", "6", "7", "8", "9" >>[n + 1]

\* the instance of the README example, each secondary-increment property
\* given or left out
SecondaryConfigurations ==
  [doc                              : {"doc"},
   counterTableName                 : {"autoincrement"},
   counterTableKey                  : {[tableName |-> "widgets"]},
   counterTableAttributeName        : {"widgetID"},
   tableName                        : {"widgets"},
   tableAttributeName               : {"widgetID"},
   initialValue                     : {1},
   dangerously                      : BOOLEAN,
   secondaryIncrementTableName      : {undefined, {"autoincrementField"}},
   secondaryIncrementAttributeName  : {undefined, {"version"}},
   secondaryIncrementItemPrimaryKey : {undefined, {"widgetID"}},
   secondaryIncrementDefaultValue   : {undefined} \cup { {d} : d \in 0..MaxInitialValue }]

\* the constructor's #useSecondaryIndexing
useSecondaryIndexing(p) ==
  /\ p.secondaryIncrementAttributeName # undefined
  /\ p.secondaryIncrementDefaultValue # undefined
  /\ p.secondaryIncrementItemPrimaryKey # undefined
  /\ p.secondaryIncrementDefaultValue # undefined

\* the constructor's private fields
secondaryIncrementAttributeName(p) == OrElse(p.secondaryIncrementAttributeName, "")
secondaryIncrementDefaultValue(p) == OrElse(p.secondaryIncrementDefaultValue, 1)
secondaryIncrementItemPrimaryKey(p) == OrElse(p.secondaryIncrementItemPrimaryKey, "")
secondaryIncrementTableName(p) == OrElse(p.secondaryIncrementTableName, "")

\* #verifySecondaryIndexing(): "ok" or the exception thrown
verifySecondaryIndexing(p) == IF useSecondaryIndexing(p) THEN "ok" ELSE "Error"

\* the items the callers pass to update and getLastPerItem: an entry with its
\* primary key, and one without
UpdateItems == { [widgetID |-> 1, widgetName |-> "spork"], [widgetName |-> "spork"] }

\* the key of the tracked row of an item
TrackedKey(p, it) ==
  Spread(p.counterTableKey,
         [tableItemPartitionKey |-> toString(it[secondaryIncrementItemPrimaryKey(p)])])

\* getLastPerItem(item) up to its doc.get: "ok" (the read is issued) or the
\* exception thrown; item[undefined key].toString() is a TypeError
getLastPerItemRequest(p, it) ==
  IF verifySecondaryIndexing(p) # "ok" THEN verifySecondaryIndexing(p)
  ELSE IF secondaryIncrementItemPrimaryKey(p) \notin DOMAIN it THEN "TypeError"
       ELSE "ok"

\* the items of table t stored under key
RowsAt(tbls, t, key) ==
  { x \in tbls[t] : \A k \in DOMAIN key : k \in DOMAIN x /\ x[k] = key[k] }

\* the store's answer to a request on table t: the table must exist
Reachable(tbls, t) == IF t \in DOMAIN tbls THEN "ok" ELSE "ValidationException"

\* doc.get({AttributesToGet, Key, TableName}).Item?.[attribute] ?? undefined
getLastPerItem(p, it, tbls) ==
  { x[secondaryIncrementAttributeName(p)] :
      x \in { y \in RowsAt(tbls, secondaryIncrementTableName(p), TrackedKey(p, it)) :
                secondaryIncrementAttributeName(p) \in DOMAIN y } }

\* one iteration of update(item) after its read: the Update of the tracked
\* row, the ItemUpdate of the item, and the value returned
update(p, it, read) ==
  LET current == OrElse(read, secondaryIncrementDefaultValue(p))
      installed == current + 1
      pk == secondaryIncrementItemPrimaryKey(p)
  IN  [puts |->
         << [TableName |-> secondaryIncrementTableName(p),
             Key       |-> TrackedKey(p, it),
             Condition |-> AttributeEquals(secondaryIncrementAttributeName(p), current),
             Set       |-> Attr(secondaryIncrementAttributeName(p), installed)],
            [TableName |-> p.tableName,
             Key       |-> Attr(pk, it[pk]),
             Condition |-> NoCondition,
             Set       |-> Spread(Attr(secondaryIncrementAttributeName(p), installed),
                                  Delete(it, pk))] >>,
       nextCounter |-> installed]

\* doc.update(u): "ok" or the exception the store answers with
DocUpdate(tbls, u) ==
  IF Reachable(tbls, u.TableName) # "ok" THEN Reachable(tbls, u.TableName)
  ELSE IF ~ConditionHolds(u.Condition, RowsAt(tbls, u.TableName, u.Key))
       THEN "ConditionalCheckFailedException"
       ELSE "ok"

\* the store after an accepted update: SET on the stored item, or on a new
\* item made of the key
ApplyUpdate(tbls, u) ==
  LET old == RowsAt(tbls, u.TableName, u.Key)
  IN  [tbls EXCEPT ![u.TableName] =
         (@ \ old) \cup { Spread(x, u.Set) : x \in IF old = {} THEN {u.Key} ELSE old }]

RECURSIVE ApplyUpdates(_, _)
ApplyUpdates(tbls, us) ==
  IF us = << >> THEN tbls ELSE ApplyUpdates(ApplyUpdate(tbls, Head(us)), Tail(us))

\* doc.transactWrite({TransactItems: [{Update}, {Update: ItemUpdate}]})
TransactUpdate(tbls, us) ==
  IF \E i \in DOMAIN us : Reachable(tbls, us[i].TableName) # "ok"
  THEN "ValidationException"
  ELSE IF \E i \in DOMAIN us :
            ~ConditionHolds(us[i].Condition, RowsAt(tbls, us[i].TableName, us[i].Key))
       THEN "TransactionCanceledException"
       ELSE "ok"

\* the store before the first call: the entry widgetID 1 in `widgets`, with
\* no tracked row or with the tracked row put() or an earlier update left
InitSecondary ==
  /\ props \in SecondaryConfigurations
  /\ lastID \in {undefined} \cup { {k} : k \in 1..MaxLastID }
  /\ tables =
       [autoincrementField |->
          { [tableName |-> "widgets", tableItemPartitionKey |-> toString(1),
             version |-> k] : k \in lastID },
        widgets |->
          { Spread([widgetID |-> 1, widgetName |-> "runcible spoon"],
                   IF lastID = undefined THEN EmptyItem
                   ELSE [version |-> CHOOSE k \in lastID : TRUE]) }]
  /\ pc = [c \in Callers |-> "idle"]
  /\ item = [c \in Callers |-> EmptyItem]
  /\ counter = [c \in Callers |-> undefined]
  /\ puts = [c \in Callers |-> << >>]
  /\ nextCounter = [c \in Callers |-> 0]
  /\ settled = [c \in Callers |-> << >>]
  /\ error = [c \in Callers |-> "none"]
  /\ result = [c \in Callers |-> undefined]
  /\ reads = [c \in Callers |-> 0]
  /\ log = << >>
  /\ initialItem = tables.autoincrementField
  /\ peeks = << >>

\* the synchronous run into getLastPerItem(item[c]): it throws, or its doc.get
\* is issued and the call waits for it at `waiting`
EnterGetLastPerItem(c, waiting) ==
  LET e == getLastPerItemRequest(props, item'[c])
  IN  IF e = "ok"
      THEN /\ pc' = [pc EXCEPT ![c] = waiting]
           /\ reads' = [reads EXCEPT ![c] = @ + 1]
           /\ UNCHANGED << error, result >>
      ELSE /\ Throw(c, e)
           /\ UNCHANGED reads

\* a caller invokes getLastPerItem(item)
GetLastPerItem(c) ==
  /\ pc[c] = "idle"
  /\ \E it \in UpdateItems : item' = [item EXCEPT ![c] = it]
  /\ EnterGetLastPerItem(c, "getLastPerItem")
  /\ UNCHANGED << props, tables, counter, puts, nextCounter, settled, lastID,
                  log, initialItem, peeks >>

\* the store answers the doc.get of a getLastPerItem call
GetLastPerItemReturn(c) ==
  /\ pc[c] = "getLastPerItem"
  /\ IF Reachable(tables, secondaryIncrementTableName(props)) # "ok"
     THEN Throw(c, Reachable(tables, secondaryIncrementTableName(props)))
     ELSE /\ pc' = [pc EXCEPT ![c] = "returned"]
          /\ result' = [result EXCEPT ![c] = getLastPerItem(props, item[c], tables)]
          /\ UNCHANGED error
  /\ UNCHANGED << props, tables, item, counter, puts, nextCounter, settled,
                  lastID, reads, log, initialItem, peeks >>

\* a caller invokes update(item): #verifySecondaryIndexing, the three
\* expression helpers, then the loop's first getLastPerItem
Update(c) ==
  /\ pc[c] = "idle"
  /\ \E it \in UpdateItems : item' = [item EXCEPT ![c] = it]
  /\ IF verifySecondaryIndexing(props) # "ok"
     THEN /\ Throw(c, verifySecondaryIndexing(props))
          /\ UNCHANGED reads
     ELSE EnterGetLastPerItem(c, "get")
  /\ UNCHANGED << props, tables, counter, puts, nextCounter, settled, lastID,
                  log, initialItem, peeks >>

\* the store answers the loop's doc.get: the two requests are built and the
\* transaction, or the first of the two unsafe updates, is issued
UpdateNext(c) ==
  /\ pc[c] = "get"
  /\ reads[c] <= MaxReads
  /\ IF Reachable(tables, secondaryIncrementTableName(props)) # "ok"
     THEN /\ Throw(c, Reachable(tables, secondaryIncrementTableName(props)))
          /\ UNCHANGED << counter, puts, nextCounter, settled >>
     ELSE LET read == getLastPerItem(props, item[c], tables)
              n == update(props, item[c], read)
          IN  /\ counter' = [counter EXCEPT ![c] = read]
              /\ puts' = [puts EXCEPT ![c] = n.puts]
              /\ nextCounter' = [nextCounter EXCEPT ![c] = n.nextCounter]
              /\ settled' = [settled EXCEPT ![c] =
                               IF Dangerously THEN << "unsent", "pending" >>
                               ELSE << "pending", "pending" >>]
              /\ pc' = [pc EXCEPT ![c] = "commit"]
              /\ UNCHANGED << error, result >>
  /\ UNCHANGED << props, tables, item, lastID, reads, log, initialItem, peeks >>

\* safe strategy: a cancelled transaction restarts the loop at getLastPerItem
UpdateTransactWrite(c) ==
  /\ pc[c] = "commit"
  /\ ~Dangerously
  /\ item' = item
  /\ LET outcome == TransactUpdate(tables, puts[c])
     IN  /\ settled' = [settled EXCEPT ![c] = [i \in DOMAIN @ |-> outcome]]
         /\ CASE outcome = "ok" ->
                   /\ tables' = ApplyUpdates(tables, puts[c])
                   /\ Return(c)
                   /\ UNCHANGED reads
              [] outcome # "ok" /\ Conflict(outcome) ->
                   /\ EnterGetLastPerItem(c, "get")
                   /\ UNCHANGED tables
              [] OTHER ->
                   /\ Throw(c, outcome)
                   /\ UNCHANGED << tables, reads >>
  /\ UNCHANGED << props, counter, puts, nextCounter, lastID, log, initialItem,
                  peeks >>

\* unsafe strategy: `await doc.update(ItemUpdate)` then `await
\* doc.update(Update)`; the second is sent once the first is fulfilled
UpdateDangerously(c) ==
  /\ pc[c] = "commit"
  /\ Dangerously
  /\ LET i == IF settled[c][2] = "pending" THEN 2 ELSE 1
         outcome == DocUpdate(tables, puts[c][i])
     IN  IF outcome = "ok"
         THEN /\ tables' = ApplyUpdate(tables, puts[c][i])
              /\ IF i = 2
                 THEN /\ settled' = [settled EXCEPT ![c] = << "pending", "ok" >>]
                      /\ UNCHANGED << pc, error, result >>
                 ELSE /\ settled' = [settled EXCEPT ![c] = << "ok", "ok" >>]
                      /\ Return(c)
         ELSE /\ settled' = [settled EXCEPT ![c][i] = outcome]
              /\ Throw(c, outcome)
              /\ UNCHANGED tables
  /\ UNCHANGED << props, item, counter, puts, nextCounter, lastID, reads, log,
                  initialItem, peeks >>

NextSecondary ==
  \E c \in Callers :
    \/ GetLastPerItem(c)
    \/ GetLastPerItemReturn(c)
    \/ Update(c)
    \/ UpdateNext(c)
    \/ UpdateTransactWrite(c)
    \/ UpdateDangerously(c)

SpecSecondary == InitSecondary /\ [][NextSecondary]_vars

\* ------------------------------------------ other counter keys, one table

\* other instances that keep their counter in the same counter table under
\* another key: one numbering the same target table, one numbering another
\* table with another attribute
OtherConfigurations(p) ==
  { [p EXCEPT !.counterTableKey = [tableName |-> "gadgets"]],
    [p EXCEPT !.counterTableKey = [tableName |-> "widgetHistory"],
              !.attributeName = "version",
              !.tableName = "widgetHistory"] }

\* the item the other instance puts
OtherItem(q) ==
  IF q.tableName = "widgetHistory" THEN [widgetID |-> 1] ELSE [widgetName |-> "gadget"]

\* a safe put of another instance, from its read to its committed transaction
OtherPut(q) ==
  /\ \A v \in getLast(q, tables) : v < q.initialValue + MaxOtherPuts - 1
  /\ LET n == next(q, OtherItem(q), getLast(q, tables), undefined)
     IN  /\ TransactWrite(tables, n.puts) = "ok"
         /\ tables' = ApplyPuts(tables, n.puts)
  /\ UNCHANGED << props, pc, item, counter, puts, nextCounter, settled, error,
                  result, lastID, reads, log, initialItem, peeks >>

\* the counter of `props` starts at 0 and has issued nothing or one value
InitOtherKeys ==
  /\ Init
  /\ props.initialValue = 0
  /\ lastID \in {undefined, {1}}

NextOtherKeys ==
  \/ \E c \in Callers :
       \/ PutWidget(c)
       \/ PutNextBounded(c)
       \/ PutTransactWrite(c)
       \/ \E i \in 1..3 : PutDangerously(c, i)
  \/ \E q \in OtherConfigurations(props) : OtherPut(q)

SpecOtherKeys == InitOtherKeys /\ [][NextOtherKeys]_vars

\* ------------------------------------------------- history counter: puts

\* the store before the first put of the history tests: no current record,
\* one without a version, or one with version k that is also in the history
HistorySeeds(p) ==
  {undefined, {UntrackedItem}}
    \cup { {Spread(UntrackedItem, Attr(p.attributeName, k))} : k \in 1..MaxLastID }

HistorySeededTables(p, seed) ==
  [t \in TableNames |->
     CASE t = p.counterTableName -> seed
       [] t = p.tableName -> { x \in seed : p.attributeName \in DOMAIN x }
       [] OTHER -> {}]

InitHistory ==
  /\ props \in HistoryConfigurations
  /\ initialItem \in HistorySeeds(props)
  /\ lastID = { x[props.attributeName] :
                  x \in { y \in initialItem : props.attributeName \in DOMAIN y } }
  /\ tables = HistorySeededTables(props, initialItem)
  /\ pc = [c \in Callers |-> "idle"]
  /\ item = [c \in Callers |-> EmptyItem]
  /\ counter = [c \in Callers |-> undefined]
  /\ puts = [c \in Callers |-> << >>]
  /\ nextCounter = [c \in Callers |-> 0]
  /\ settled = [c \in Callers |-> << >>]
  /\ error = [c \in Callers |-> "none"]
  /\ result = [c \in Callers |-> undefined]
  /\ reads = [c \in Callers |-> 0]
  /\ log = << >>
  /\ peeks = << >>

\* a caller invokes put(item) on the history counter
PutHistory(c) ==
  /\ pc[c] = "idle"
  /\ \E it \in HistoryItems : item' = [item EXCEPT ![c] = it]
  /\ pc' = [pc EXCEPT ![c] = "next"]
  /\ UNCHANGED << props, tables, counter, puts, nextCounter, settled, error,
                  result, lastID, reads, log, initialItem, peeks >>

\* one loop iteration's `await this.next(item)` of the history counter: read
\* the current record, build the write-set
PutNextHistory(c) ==
  /\ pc[c] = "next"
  /\ LET existingItem == get(props, tables)
         n == nextHistory(props, item[c], existingItem)
     IN  /\ counter' = [counter EXCEPT ![c] =
                          { x[props.attributeName] :
                              x \in { y \in existingItem :
                                        props.attributeName \in DOMAIN y } }]
         /\ puts' = [puts EXCEPT ![c] = n.puts]
         /\ nextCounter' = [nextCounter EXCEPT ![c] = n.nextCounter]
         /\ settled' = [settled EXCEPT ![c] = [i \in DOMAIN n.puts |-> "pending"]]
  /\ reads' = [reads EXCEPT ![c] = @ + 1]
  /\ pc' = [pc EXCEPT ![c] = "commit"]
  /\ UNCHANGED << props, tables, item, error, result, lastID, log,
                  initialItem, peeks >>

NextHistory ==
  \E c \in Callers :
    \/ PutHistory(c)
    \/ PutNextHistory(c)
    \/ PutTransactWrite(c)
    \/ \E i \in 1..3 : PutDangerously(c, i)

SpecHistory == InitHistory /\ [][NextHistory]_vars

\* the current records of the 'increments version on put' tests: none, one
\* without a version, one at version 1; the history log is empty
TestInitialItems ==
  { undefined, {[widgetID |-> 1]}, {[widgetID |-> 1, version |-> 1]} }

InitHistoryTests ==
  /\ props \in HistoryConfigurations
  /\ initialItem \in TestInitialItems
  /\ lastID = { x[props.attributeName] :
                  x \in { y \in initialItem : props.attributeName \in DOMAIN y } }
  /\ tables = [t \in TableNames |->
                 IF t = props.counterTableName THEN initialItem ELSE {}]
  /\ pc = [c \in Callers |-> "idle"]
  /\ item = [c \in Callers |-> EmptyItem]
  /\ counter = [c \in Callers |-> undefined]
  /\ puts = [c \in Callers |-> << >>]
  /\ nextCounter = [c \in Callers |-> 0]
  /\ settled = [c \in Callers |-> << >>]
  /\ error = [c \in Callers |-> "none"]
  /\ result = [c \in Callers |-> undefined]
  /\ reads = [c \in Callers |-> 0]
  /\ log = << >>
  /\ peeks = << >>

SpecHistoryTests == InitHistoryTests /\ [][NextHistory]_vars

\* list(): the versions of the history records of the key, ascending
list(p, tbls) ==
  LET versions == { h[p.attributeName] :
                      h \in { x \in tbls[p.tableName] :
                                KeyOf(p.counterTableName, x) = p.counterTableKey } }
  IN  CHOOSE s \in [1..Cardinality(versions) -> versions] :
        \A i, j \in 1..Cardinality(versions) : i < j => s[i] < s[j]

\* ---------------------------------------------------------------- getLast

\* the other variables, which a getLast call leaves alone
putVars == << props, tables, pc, item, counter, puts, nextCounter, settled,
              error, result, lastID, reads, log, initialItem >>

\* mutant: get-or-create, an absent counter is initialised by the read
GetLastCreates ==
  /\ Len(peeks) < MaxPeeks
  /\ peeks' = Append(peeks, [value   |-> getLast(props, tables),
                             at      |-> Len(log),
                             results |-> result])
  /\ tables' =
       IF getLast(props, tables) = undefined
       THEN ApplyPut(tables,
                     [TableName |-> props.counterTableName,
                      Item      |-> Spread(props.counterTableKey,
                                           Attr(props.attributeName, props.initialValue))])
       ELSE tables
  /\ UNCHANGED << props, pc, item, counter, puts, nextCounter, settled,
                  error, result, lastID, reads, log, initialItem >>

\* mutant: AttributesToGet names an attribute the counter record does not have
GetLastWrongAttribute ==
  /\ Len(peeks) < MaxPeeks
  /\ peeks' = Append(peeks, [value   |-> undefined,
                             at      |-> Len(log),
                             results |-> result])
  /\ UNCHANGED putVars

\* getLast(): one read of the counter record; the call is recorded with the
\* number of counter writes committed before it and the values the puts had
\* returned by then
GetLast ==
  /\ Len(peeks) < MaxPeeks
  /\ peeks' = Append(peeks, [value   |-> getLast(props, tables),
                             at      |-> Len(log),
                             results |-> result])
  /\ UNCHANGED putVars

\* the items put beside the getLast calls: one the store accepts, one it refuses
GetLastItems ==
  { [widgetName |-> "runcible spoon"],
    [widgetName |-> "runcible spoon", description |-> HugeDescription] }

\* a caller invokes put(item) while getLast calls are being made
PutBesideGetLast(c) ==
  /\ pc[c] = "idle"
  /\ \E it \in GetLastItems : item' = [item EXCEPT ![c] = it]
  /\ pc' = [pc EXCEPT ![c] = "next"]
  /\ UNCHANGED << props, tables, counter, puts, nextCounter, settled, error,
                  result, lastID, reads, log, initialItem, peeks >>

NextGetLast ==
  \/ \E c \in Callers :
       \/ PutBesideGetLast(c)
       \/ PutNext(c)
       \/ PutTransactWrite(c)
       \/ \E i \in 1..3 : PutDangerously(c, i)
  \/ GetLast

SpecGetLast == Init /\ [][NextGetLast]_vars

\* ----------------------------------------------------------- vocabulary

Safe == ~props.dangerously
Fresh == lastID = undefined

ReturnedCalls == { c \in Callers : pc[c] = "returned" }
ReturnedValues == UNION { result[c] : c \in ReturnedCalls }

\* the counter record's value now, and the assigned values in the target table
CounterNow == getLast(props, tables)
TargetValues == { x[props.attributeName] : x \in tables[props.tableName] }

\* the call has had an attempt cancelled and has read the counter again
Retried(c) == reads[c] >= 2

\* ------------------------------------------------------------------- C1
\* C1: safe strategy, counter record absent at the start: the values returned
\* by the calls that have returned are distinct and are exactly initialValue,
\* initialValue + 1, ..., one per returned call; so when all NumCallers
\* concurrent calls have returned they are exactly
\* initialValue .. initialValue + NumCallers - 1, in every interleaving.
C1_MonotonicUniqueness ==
  (Safe /\ Fresh) =>
    /\ ReturnedValues =
         props.initialValue .. (props.initialValue + Cardinality(ReturnedCalls) - 1)
    /\ \A a, b \in ReturnedCalls : a # b => result[a] # result[b]

\* all calls returned, and one of them lost a race and retried
C1_Witness ==
  /\ Safe /\ Fresh
  /\ ReturnedCalls = Callers
  /\ \E c \in Callers : Retried(c)

\* ------------------------------------------------------------------- C2
\* C2: safe strategy: no counter value is committed by two put calls, and the
\* values committed to the counter key, in commit order, go up by exactly 1.
C2_LinearizableIncrement ==
  Safe =>
    /\ \A i, j \in DOMAIN log : i # j => log[i].value # log[j].value
    /\ \A i \in DOMAIN log : i > 1 => log[i].value = log[i - 1].value + 1

\* two different calls have committed, the second after a cancelled attempt
C2_Witness ==
  /\ Safe
  /\ Len(log) >= 2
  /\ log[1].caller # log[2].caller
  /\ Retried(log[2].caller)

\* ------------------------------------------------------------------- C3
\* C3: safe strategy from an empty store: the counter is absent exactly when
\* the target table is empty, and when the counter holds v the target table
\* holds exactly one record for each of initialValue .. v.
C3_CounterMatchesTarget ==
  (Safe /\ Fresh) =>
    /\ (CounterNow = undefined) <=> (tables[props.tableName] = {})
    /\ \A v \in CounterNow :
         /\ TargetValues = props.initialValue .. v
         /\ Cardinality(tables[props.tableName]) = v - props.initialValue + 1

\* both calls have committed: counter at initialValue + 1, two target records
C3_Witness ==
  /\ Safe /\ Fresh
  /\ CounterNow = {props.initialValue + 1}
  /\ Cardinality(tables[props.tableName]) = 2

\* ------------------------------------------------------------------- C4
\* no call but c has been made
OnlyCall(c) == \A d \in Callers \ {c} : pc[d] = "idle"

\* C4: counter record seeded with k, one put and no other caller: the put
\* returns k + 1, the counter record is then exactly its key plus the counter
\* attribute k + 1, and the target table holds exactly one record, the caller's
\* attributes plus the assigned attribute k + 1.  (The put throws only when
\* the store refuses the item for its size.)
C4_ResumeFromExisting ==
  \A c \in Callers, k \in lastID :
    OnlyCall(c) =>
      /\ pc[c] = "returned" =>
            /\ result[c] = {k + 1}
            /\ tables[props.counterTableName] =
                 { Spread(props.counterTableKey, Attr(props.attributeName, k + 1)) }
            /\ tables[props.tableName] =
                 { Spread(item[c], Attr(props.attributeName, k + 1)) }
      /\ pc[c] = "failed" => ItemTooLarge(item[c])

C4_Witness ==
  \E c \in Callers :
    /\ lastID = {2}
    /\ OnlyCall(c)
    /\ pc[c] = "returned"
    /\ item[c] = [widgetName |-> "runcible spoon"]

\* ------------------------------------------------------------------- C5
\* C5 (sequential callers, counter absent at the start, every initialValue):
\* the i-th put of a sequence of puts that all returned returns
\* initialValue + i - 1, and after the first put the counter record exists
\* and holds initialValue.
C5_FreshSequential ==
  Fresh =>
    /\ \A c \in Callers :
         (\A d \in 1..c : pc[d] = "returned") =>
            result[c] = {props.initialValue + c - 1}
    /\ (pc[1] = "returned" /\ OnlyCall(1)) =>
         tables[props.counterTableName] =
           { Spread(props.counterTableKey,
                    Attr(props.attributeName, props.initialValue)) }

C5_Witness ==
  /\ Fresh
  /\ props.initialValue = 0
  /\ \A c \in Callers : pc[c] = "returned"
  /\ result[NumCallers] = {NumCallers - 1}

\* ------------------------------------------------------------------- C6
\* C6: safe strategy: no call ends with a conflict signal; a call ends by
\* returning an integer or by throwing a non-conflict exception.
C6_ConflictNeverSurfaced ==
  Safe =>
    \A c \in Callers :
      /\ error[c] \notin {"TransactionCanceledException",
                          "ConditionalCheckFailedException"}
      /\ pc[c] = "failed" => error[c] = "ValidationException"
      /\ pc[c] = "returned" => (result[c] # undefined /\ result[c] \subseteq Int)
      /\ pc[c] # "returned" => result[c] = undefined

\* a call whose transaction has just been cancelled is back at the loop head
C6_Witness ==
  /\ Safe
  /\ \E c \in Callers :
       /\ pc[c] = "next"
       /\ settled[c] # << >>
       /\ \A i \in DOMAIN settled[c] : settled[c][i] = "TransactionCanceledException"
       /\ error[c] = "none"

\* ------------------------------------------------------------------- C7
\* C7: safe strategy: when the transaction fails with a non-conflict error,
\* that step ends the call with the store's error, leaves every table as it
\* was and applies none of the call's writes; the call has applied no write
\* before, and afterwards it neither reads the counter nor changes state.
C7_FatalErrorPropagates ==
  [][ \A c \in Callers :
        Safe =>
          /\ (pc[c] = "commit" /\ pc'[c] = "failed") =>
                /\ error'[c] = TransactWrite(tables, puts[c])
                /\ error'[c] # "ok" /\ ~Conflict(error'[c])
                /\ tables' = tables
                /\ \A i \in DOMAIN settled'[c] : settled'[c][i] = error'[c]
                /\ \A i \in DOMAIN log' : log'[i].caller # c
          /\ pc[c] = "failed" =>
                /\ pc'[c] = "failed"
                /\ reads'[c] = reads[c]
                /\ error'[c] = error[c]
                /\ settled'[c] = settled[c] ]_vars

\* the oversize item was refused while the other call committed its own
C7_Witness ==
  /\ Safe
  /\ \E c \in Callers :
       /\ pc[c] = "failed"
       /\ error[c] = "ValidationException"
       /\ reads[c] = 1
       /\ \E d \in Callers \ {c} : pc[d] = "returned"

\* ------------------------------------------------------------------- C8
Ended(c) == pc[c] \in {"returned", "failed"}

\* the store accepts the call's item (no non-conflict failure)
Accepted(c) == ~ItemTooLarge(item[c])

\* the call ended with the conflict-class failure
ConflictFailure(c) ==
  pc[c] = "failed" /\ error[c] = "ConditionalCheckFailedException"

\* C8 as stated: unsafe strategy: of two put calls that computed their
\* write-sets from the same counter read, at least one ends with
\* ConditionalCheckFailedException.
C8_AsStated ==
  ~Safe =>
    \A a, b \in Callers :
      (a # b /\ Ended(a) /\ Ended(b) /\ counter[a] = counter[b])
      => (ConflictFailure(a) \/ ConflictFailure(b))

\* C8 (amended): unsafe strategy: two put calls that computed their
\* write-sets from the same counter read never both return, and when the
\* store accepts the items of both, at least one of the two ends with
\* ConditionalCheckFailedException.
C8_UnsafeConflictExposure ==
  ~Safe =>
    \A a, b \in Callers :
      (a # b /\ Ended(a) /\ Ended(b) /\ counter[a] = counter[b])
      => /\ ~(pc[a] = "returned" /\ pc[b] = "returned")
         /\ (Accepted(a) /\ Accepted(b)) =>
              (ConflictFailure(a) \/ ConflictFailure(b))

\* same read, one call returned and the other threw the conflict
C8_Witness ==
  /\ ~Safe
  /\ \E a, b \in Callers :
       /\ a # b
       /\ counter[a] = counter[b]
       /\ pc[a] = "returned"
       /\ pc[b] = "failed"
       /\ error[b] = "ConditionalCheckFailedException"

\* ------------------------------------------------------------------- C9
\* the store after the first n sequential puts on a fresh counter
SerialTables(n) ==
  [t \in TableNames |->
     CASE t = props.counterTableName ->
            IF n = 0 THEN {}
            ELSE { Spread(props.counterTableKey,
                          Attr(props.attributeName, props.initialValue + n - 1)) }
       [] t = props.tableName ->
            { Spread(item[c], Attr(props.attributeName, props.initialValue + c - 1)) :
                c \in 1..n }
       [] OTHER -> {}]

\* every call made has ended and none of its writes is in flight
Quiescent ==
  \A c \in Callers :
    /\ pc[c] \in {"idle", "returned", "failed"}
    /\ \A i \in DOMAIN settled[c] : settled[c][i] # "pending"

CallsMade == { c \in Callers : pc[c] # "idle" }

\* C9 as stated: unsafe strategy, sequential callers, fresh counter: no call
\* fails, the i-th put returns initialValue + i - 1, and the counter and target
\* tables are those the safe strategy reaches.
C9_AsStated ==
  (~Safe /\ Fresh /\ Quiescent) =>
    /\ \A c \in Callers : pc[c] # "failed"
    /\ \A c \in Callers : pc[c] = "returned" => result[c] = {props.initialValue + c - 1}
    /\ tables = SerialTables(Cardinality(CallsMade))

\* C9 (amended: sequential callers, counter absent at the start, items the
\* store accepts): under the unsafe strategy as under the safe one, no call fails,
\* the i-th put returns initialValue + i - 1, and between calls the counter
\* and target tables are the same function of the calls made so far.
C9_UnsafeSerialAsSafe ==
  (Fresh /\ \A c \in Callers : Accepted(c)) =>
    /\ \A c \in Callers : pc[c] # "failed" /\ error[c] = "none"
    /\ \A c \in Callers : pc[c] = "returned" => result[c] = {props.initialValue + c - 1}
    /\ (\A c \in Callers : pc[c] \in {"idle", "returned"}) =>
         tables = SerialTables(Cardinality(ReturnedCalls))

C9_Witness ==
  /\ ~Safe /\ Fresh
  /\ \A c \in Callers : pc[c] = "returned" /\ Accepted(c)
  /\ tables = SerialTables(NumCallers)

\* ------------------------------------------------------------------ C10
\* one write of the call's write-set committed, a sibling failed its condition
PartialApplication(c) ==
  \E i, j \in DOMAIN settled[c] :
    /\ settled[c][i] = "ok"
    /\ settled[c][j] = "ConditionalCheckFailedException"

\* C10: partial application (reached in C10_Witness) happens under the unsafe
\* strategy only, and only to a call that raced another call whose write
\* committed.
C10_PartialApplicationUnsafeOnly ==
  \A c \in Callers :
    PartialApplication(c) =>
      /\ ~Safe
      /\ \E d \in Callers \ {c} :
           \E i \in DOMAIN settled[d] : settled[d][i] = "ok"

\* the counter put of a call committed and its target put failed its check
C10_Witness ==
  \E c \in Callers :
    /\ Len(settled[c]) = 2
    /\ settled[c][1] = "ok"
    /\ settled[c][2] = "ConditionalCheckFailedException"

\* ------------------------------------------------------------------ C11
\* the counter holds a value for which no target record exists, or a target
\* record carries a value the counter has not reached
Inconsistent ==
  \/ \E v \in CounterNow : v \notin TargetValues
  \/ \E v \in TargetValues : \A w \in CounterNow : v > w

\* the call's counter write committed and the store refused its target write
\* for the item's size
CounterWithoutTarget(c) ==
  /\ Len(settled[c]) = 2
  /\ settled[c][1] = "ok"
  /\ settled[c][2] = "ValidationException"

C12_CounterNeverDecreases ==
  [][ \A v \in CounterNow :
        /\ getLast(props', tables') # undefined
        /\ \A w \in getLast(props', tables') : w >= v ]_vars

\* the unsafe strategy has advanced a seeded counter twice
C12_Witness ==
  /\ ~Safe
  /\ \E k \in lastID : CounterNow = {k + 2}
  /\ Len(log) = 2

\* ------------------------------------------------------------------ C13
\* C13 as stated: the counter attribute is absent or a positive integer.
C13_AsStated ==
  \A v \in CounterNow : v \in Int /\ v > 0

\* C13 (amended): the counter attribute is absent or an integer that is at
\* least initialValue when the counter started absent and at least the value
\* it started with otherwise; so it is positive when initialValue is.
C13_CounterAbsentOrAtLeastInitial ==
  \A v \in CounterNow :
    /\ v \in Int
    /\ Fresh => v >= props.initialValue
    /\ \A k \in lastID : v >= k
    /\ props.initialValue > 0 => v > 0

\* the first put of an instance configured with initialValue 0 has committed
C13_Witness ==
  /\ Fresh
  /\ props.initialValue = 0
  /\ CounterNow = {0}
  /\ \E c \in Callers : pc[c] = "returned" /\ result[c] = {0}

\* ------------------------------------------------------------------ C14
\* C14: a getLast call changes no table (and nothing else of the puts in
\* progress), and it returns what every earlier getLast call returned since
\* the last counter write committed.
C14_GetLastReadOnly ==
  [][ peeks' # peeks =>
        /\ tables' = tables
        /\ putVars' = putVars
        /\ \A i \in DOMAIN peeks :
             peeks[i].at = Len(log) => peeks'[Len(peeks')].value = peeks[i].value ]_vars

\* two getLast calls after one committed put, no put committing between them
C14_Witness ==
  /\ Len(peeks) = 2
  /\ peeks[1].at = 1
  /\ peeks[2].at = 1
  /\ peeks[1].value # undefined

\* ------------------------------------------------------------------ C15
\* C15: getLast returns the last issued value: what the store started with
\* (absent on a fresh counter) when no put has committed, else the value of
\* the last counter write committed; when the put that committed it has
\* returned, that is the value the put returned; and under the safe strategy
\* it is never absent after, nor below, a value a completed put has returned.
C15_GetLastIsLastIssued ==
  \A i \in DOMAIN peeks :
    LET p == peeks[i]
    IN  /\ p.at = 0 => p.value = lastID
        /\ p.at > 0 => p.value = {log[p.at].value}
        /\ \A c \in Callers :
             (p.at > 0 /\ log[p.at].caller = c /\ p.results[c] # undefined)
             => p.value = p.results[c]
        /\ Safe =>
             \A c \in Callers :
               p.results[c] # undefined =>
                 /\ p.value # undefined
                 /\ \A r \in p.results[c], v \in p.value : v >= r

\* absent before the first put of a fresh counter, then the value 1 that the
\* second put has returned
C15_Witness ==
  /\ Fresh
  /\ Len(peeks) = 2
  /\ peeks[1].value = undefined
  /\ peeks[2].at = 2
  /\ \E c \in Callers :
       /\ log[2].caller = c
       /\ peeks[2].results[c] = peeks[2].value
       /\ peeks[2].value = {props.initialValue + 1}

\* ------------------------------------------------------------------ C16
\* the current record of the history counter, {} or {item}
CurrentRecord == get(props, tables)

\* the history log of the counter key, and the versions it holds
HistoryLog ==
  { h \in tables[props.tableName] :
      KeyOf(props.counterTableName, h) = props.counterTableKey }
HistoryVersions == { h[props.attributeName] : h \in HistoryLog }

\* the calls run one transaction at a time, or a single call has been made
Atomic == Safe \/ \E c \in Callers : OnlyCall(c)

FirstPut(c) ==
  /\ pc[c] = "returned"
  /\ OnlyCall(c) \/ (Safe /\ ReturnedCalls = {c})

\* the record put(item) writes at version v
Versioned(it, v) ==
  Spread(Spread(it, props.counterTableKey), Attr(props.attributeName, v))

C20_NoRecordNoBootstrap ==
  initialItem = undefined =>
    \A c \in Callers :
      /\ \A i \in DOMAIN puts[c] : puts[c][i].Condition # NoCondition
      /\ Len(puts[c]) \in {0, 2}
      /\ FirstPut(c) =>
           /\ result[c] = {props.initialValue}
           /\ tables[props.tableName] = { Versioned(item[c], props.initialValue) }

C20_Witness ==
  \E c \in Callers :
    /\ initialItem = undefined
    /\ FirstPut(c)
    /\ result[c] = {props.initialValue}
    /\ Len(puts[c]) = 2
    /\ CurrentRecord = { Versioned(item[c], props.initialValue) }

\* ------------------------------------------------------------------ C21
\* the version the first put on the key is due: initialValue with no current
\* record, initialValue + 1 with a current record that has no version, c + 1
\* with a current record at version c
FirstVersion ==
  IF initialItem = undefined THEN props.initialValue
  ELSE IF lastID = undefined THEN props.initialValue + 1
       ELSE (CHOOSE k \in lastID : TRUE) + 1

\* C21 (history counter, safe strategy, every interleaving): the values
\* returned by the concurrent puts that have returned are distinct and are
\* exactly FirstVersion, FirstVersion + 1, ..., one per returned call.
C21_HistoryConcurrentConsecutive ==
  Safe =>
    /\ ReturnedValues = FirstVersion .. (FirstVersion + Cardinality(ReturnedCalls) - 1)
    /\ \A a, b \in ReturnedCalls : a # b => result[a] # result[b]

\* all calls returned on a current record at version 2, one after a retry
C21_Witness ==
  /\ Safe
  /\ lastID = {2}
  /\ ReturnedCalls = Callers
  /\ \E c \in Callers : Retried(c)
  /\ ReturnedValues = 3 .. (NumCallers + 2)

\* ------------------------------------------------------------------ C22
\* the bootstrap write of a write-set: the one without a condition
IsBootstrap(p) == p.Condition = NoCondition

CommitAttempt(c) == pc[c] = "commit" /\ settled'[c] # settled[c]

\* C24: a call reaches its commit only through a read of the counter, made in
\* that step, and the write-set it then holds is next() of the value read; the
\* write-set a commit attempt submits is the one computed from that read;
\* under the safe strategy every attempt ends the iteration, a cancelled one
\* putting the call back before the read; and the step in which a safe put
\* returns installs the returned value in the counter record.
C24_AttemptUsesFreshRead ==
  [][ \A c \in Callers :
        /\ (pc[c] # "commit" /\ pc'[c] = "commit") =>
              /\ pc[c] = "next"
              /\ reads'[c] = reads[c] + 1
              /\ counter'[c] = getLast(props, tables)
              /\ puts'[c] = next(props, item[c], getLast(props, tables), undefined).puts
              /\ nextCounter'[c] = next(props, item[c], getLast(props, tables), undefined).nextCounter
              /\ tables' = tables
        /\ CommitAttempt(c) =>
              /\ puts[c] = next(props, item[c], counter[c], undefined).puts
              /\ reads'[c] = reads[c]
              /\ Safe => pc'[c] \in {"returned", "next", "failed"}
              /\ (Safe /\ pc'[c] = "next") =>
                    /\ TransactWrite(tables, puts[c]) = "TransactionCanceledException"
                    /\ tables' = tables
        /\ (Safe /\ pc[c] = "commit" /\ pc'[c] = "returned") =>
              /\ result'[c] = {nextCounter[c]}
              /\ counter[c] = undefined => nextCounter[c] = props.initialValue
              /\ \A k \in counter[c] : nextCounter[c] = k + 1 /\ getLast(props, tables) = {k}
              /\ getLast(props', tables') = result'[c]
              /\ log' = Append(log, [caller |-> c, value |-> nextCounter[c]]) ]_vars

\* a safe put has returned after a cancelled attempt: it read the counter
\* twice and returned one more than its second read, which the counter holds
C24_Witness ==
  \E c \in Callers :
    /\ Safe /\ Fresh
    /\ pc[c] = "returned"
    /\ reads[c] = 2
    /\ counter[c] = {props.initialValue}
    /\ result[c] = {props.initialValue + 1}
    /\ CounterNow = result[c]

\* ------------------------------------------------------------------ C25
\* C25 as stated (safe strategy, store reached from empty by safe puts, weak
\* fairness of every call's steps): each call made eventually returns a value.
C25_AsStated ==
  \A c \in Callers : (pc[c] = "next") ~> (pc[c] = "returned")

\* C25 (amended): each call made eventually ends: it returns a value when the
\* store accepts its item, and it throws the store's ValidationException when
\* the item is over the size limit; no call retries forever.
C25_EveryCallEnds ==
  \A c \in Callers :
    (pc[c] = "next") ~>
      \/ pc[c] = "returned" /\ result[c] # undefined /\ Accepted(c)
      \/ pc[c] = "failed" /\ error[c] = "ValidationException" /\ ~Accepted(c)

\* all calls have returned, the last of them after losing to every other
C25_Witness ==
  /\ Safe
  /\ ReturnedCalls = Callers
  /\ \E c \in Callers : reads[c] = NumCallers

\* ------------------------------------------------------------------ C26
\* C26 (safe strategy, store reached from empty by safe puts): when a call
\* reads the counter, no put has yet committed the value the call goes on to
\* claim; and when its transaction is cancelled, another call has committed
\* exactly that value, so the counter has moved past what the call read: a
\* put by another caller committed between the read and the commit attempt.
C26_CancelWitnessesProgress ==
  [][ \A c \in Callers :
        /\ (pc[c] = "next" /\ pc'[c] = "commit") =>
              \A i \in DOMAIN log : log[i].value < nextCounter'[c]
        /\ (pc[c] = "commit" /\ pc'[c] = "next") =>
              /\ \E i \in DOMAIN log :
                   /\ log[i].caller # c
                   /\ log[i].value = nextCounter[c]
              /\ getLast(props, tables) # counter[c]
              /\ \E v \in getLast(props, tables) : v >= nextCounter[c] ]_vars

\* a call has just been cancelled: the other call committed the value it had
\* computed
C26_Witness ==
  \E c \in Callers :
    /\ pc[c] = "next"
    /\ settled[c] # << >>
    /\ \A i \in DOMAIN settled[c] : settled[c][i] = "TransactionCanceledException"
    /\ \E i \in DOMAIN log : log[i].caller # c /\ log[i].value = nextCounter[c]
    /\ lastID # undefined

\* ------------------------------------------------------------------ C27
\* the attempts of the call that the store has cancelled so far
CancelledAttempts(c) ==
  IF pc[c] \in {"idle", "next"} THEN reads[c] ELSE reads[c] - 1

\* C27 (safe strategy, fresh counter, NumCallers calls each made once): no
\* call has more than NumCallers - 1 cancelled attempts, and a call is
\* cancelled at most once for each other call that has committed.
C27_RetriesBoundedByCallers ==
  (Safe /\ Fresh) =>
    \A c \in Callers :
      /\ CancelledAttempts(c) <= NumCallers - 1
      /\ CancelledAttempts(c) <=
           Cardinality({ i \in DOMAIN log : log[i].caller # c })

\* a call has returned after NumCallers - 1 cancelled attempts
C27_Witness ==
  /\ Safe /\ Fresh
  /\ \E c \in Callers :
       /\ pc[c] = "returned"
       /\ CancelledAttempts(c) = NumCallers - 1
       /\ CancelledAttempts(c) > 0

\* ------------------------------------------------------------------ C28
\* C28 as stated (safe strategy, plain counter, a target record at the value
\* the counter issues next): a put never returns and never raises.
C28_AsStated ==
  \A c \in Callers : pc[c] \notin {"returned", "failed"}

\* C28 (amended): with a target record at the value the counter issues next,
\* a put whose item the store accepts never returns and never raises: every
\* attempt computes that same value, its counter write's condition holds, its
\* target write's condition fails, the transaction is cancelled and the store
\* stays as it was, with or without a concurrent caller.  A put whose item is
\* over the size limit raises the store's ValidationException at its first
\* attempt.
C28_TargetCollisionLivelock ==
  /\ tables = CollidingTables(props, lastID)
  /\ log = << >>
  /\ \A c \in Callers :
       /\ pc[c] # "returned"
       /\ result[c] = undefined
       /\ pc[c] = "failed" =>
            ~Accepted(c) /\ error[c] = "ValidationException" /\ reads[c] = 1
       /\ Accepted(c) => error[c] = "none"
       /\ reads[c] >= 1 =>
            /\ nextCounter[c] = IssuedNext(props, lastID)
            /\ counter[c] = lastID
            /\ ConditionHolds(puts[c][1].Condition,
                              Existing(tables, puts[c][1].TableName, puts[c][1].Item))
            /\ ~ConditionHolds(puts[c][2].Condition,
                               Existing(tables, puts[c][2].TableName, puts[c][2].Item))
       /\ (Accepted(c) /\ pc[c] = "commit") =>
            TransactWrite(tables, puts[c]) = "TransactionCanceledException"
       /\ (Accepted(c) /\ pc[c] = "next" /\ reads[c] >= 1) =>
            \A i \in DOMAIN settled[c] : settled[c][i] = "TransactionCanceledException"

\* a single call, no other caller, cancelled MaxReads times over
C28_Witness ==
  \E c \in Callers :
    /\ OnlyCall(c)
    /\ Accepted(c)
    /\ pc[c] = "next"
    /\ reads[c] = MaxReads
    /\ MaxReads >= 2
    /\ \A i \in DOMAIN settled[c] : settled[c][i] = "TransactionCanceledException"
    /\ nextCounter[c] = IssuedNext(props, lastID)

\* ------------------------------------------------------------------ C29
\* C29 (unsafe strategy): a put reads the counter once and submits each write
\* of its one write-set once; the step in which a write of a call in progress
\* fails its condition check ends the call with ConditionalCheckFailedException;
\* and a call that has read never goes back to the read, nor does a failed
\* call change its error or leave the failed state.
C29_UnsafeSingleAttempt ==
  [][ ~Safe =>
        \A c \in Callers :
          /\ reads'[c] <= 1
          /\ pc[c] \in {"commit", "failed", "returned"} =>
                /\ pc'[c] # "next"
                /\ reads'[c] = reads[c]
                /\ puts'[c] = puts[c]
                /\ \A i \in DOMAIN settled[c] :
                     settled[c][i] # "pending" => settled'[c][i] = settled[c][i]
          /\ (pc[c] = "commit" /\ \E i \in DOMAIN settled[c] :
                                    /\ settled[c][i] = "pending"
                                    /\ settled'[c][i] = "ConditionalCheckFailedException") =>
                /\ pc'[c] = "failed"
                /\ error'[c] = "ConditionalCheckFailedException"
          /\ pc[c] = "failed" => (pc'[c] = "failed" /\ error'[c] = error[c]) ]_vars

\* both writes of an unsafe call failed their condition checks after the
\* other call's writes had landed; the call read the counter once
C29_Witness ==
  /\ ~Safe
  /\ \E c \in Callers :
       /\ ConflictFailure(c)
       /\ reads[c] = 1
       /\ Len(settled[c]) = 2
       /\ \A i \in DOMAIN settled[c] : settled[c][i] = "ConditionalCheckFailedException"
       /\ \E d \in Callers \ {c} : pc[d] = "returned"

\* ------------------------------------------------------------------ C30
\* write i of the call reaches the store in this step
Lands(c, i) ==
  /\ i \in DOMAIN settled[c]
  /\ settled[c][i] = "pending"
  /\ settled'[c][i] # "pending"

\* a write of the call is in flight and the store would accept it now,
\* changing a table
SiblingCanCommit(c) ==
  \E j \in DOMAIN settled[c] :
    /\ settled[c][j] = "pending"
    /\ DocPut(tables, puts[c][j]) = "ok"
    /\ ApplyPut(tables, puts[c][j]) # tables

\* C30 (unsafe strategy): the step in which the first write of a call in
\* progress is rejected ends the call with that rejection and leaves its
\* other writes in flight; a write in flight of a call that has already failed
\* reaches the store like any other: it is applied when its condition holds,
\* while the call stays failed with the error it reported.  The state in
\* which a failed call has a sibling write that can still commit is reached in
\* C30_Witness; the safe strategy never changes the store for a failed call.
C30_FailFastSiblingStillLands ==
  [][ \A c \in Callers :
        /\ (~Safe /\ pc[c] = "commit") =>
              \A i \in DOMAIN settled[c] :
                (Lands(c, i) /\ settled'[c][i] # "ok") =>
                   /\ pc'[c] = "failed"
                   /\ error'[c] = settled'[c][i]
                   /\ \A j \in DOMAIN settled[c] \ {i} : settled'[c][j] = settled[c][j]
        /\ pc[c] = "failed" =>
              /\ pc'[c] = "failed" /\ error'[c] = error[c]
              /\ \A i \in DOMAIN settled[c] :
                   Lands(c, i) =>
                     /\ ~Safe
                     /\ settled'[c][i] = DocPut(tables, puts[c][i])
                     /\ tables' = IF settled'[c][i] = "ok"
                                  THEN ApplyPut(tables, puts[c][i])
                                  ELSE tables ]_vars

\* an unsafe call has failed on its counter write's condition check while
\* its target write is still in flight and would be stored now
C30_Witness ==
  /\ ~Safe
  /\ \E c \in Callers :
       /\ ConflictFailure(c)
       /\ settled[c][1] = "ConditionalCheckFailedException"
       /\ settled[c][2] = "pending"
       /\ SiblingCanCommit(c)

\* ------------------------------------------------------------------ C31
\* C31 (unsafe strategy, plain counter, target table keyed by the assigned
\* attribute): in every interleaving, no two calls that have returned have
\* returned the same value, and each returned value has its own target record.
C31_UnsafeReturnsDistinct ==
  ~Safe =>
    /\ \A a, b \in ReturnedCalls : a # b => result[a] # result[b]
    /\ \A c \in ReturnedCalls : result[c] \subseteq TargetValues

\* two unsafe calls have both returned, one issued right after the other
C31_Witness ==
  /\ ~Safe
  /\ \E a, b \in ReturnedCalls :
       /\ a # b
       /\ \E v \in result[a] : result[b] = {v + 1}
       /\ counter[b] = result[a]

\* ------------------------------------------------------------------ C32
\* C32 (plain counter, both strategies): every record of the target table is
\* in the target table after every step, with the same attributes, and it
\* stays the only record with its assigned value.
C32_TargetRecordsKept ==
  [][ \A x \in tables[props.tableName] :
        /\ x \in tables'[props.tableName]
        /\ \A y \in tables'[props.tableName] :
             y[props.attributeName] = x[props.attributeName] => y = x ]_vars

\* an unsafe call with another item tried to store a record under a value
\* that was taken: its target put was refused and the first record is intact
C32_Witness ==
  \E c, d \in Callers :
    /\ c # d
    /\ item[c] # item[d]
    /\ Len(settled[c]) = 2
    /\ settled[c][2] = "ConditionalCheckFailedException"
    /\ nextCounter[c] = nextCounter[d]
    /\ Spread(item[d], Attr(props.attributeName, nextCounter[d])) \in tables[props.tableName]

\* ------------------------------------------------------------------ C33
\* the version attribute of the current record, {} when there is no record or
\* it has no version
CurrentVersion ==
  { x[props.attributeName] : x \in { y \in CurrentRecord : props.attributeName \in DOMAIN y } }

Untracked == initialItem # undefined /\ lastID = undefined

\* the bootstrap snapshot: the pre-existing record at version initialValue
Snapshot ==
  { Spread(e, Attr(props.attributeName, props.initialValue)) : e \in initialItem }

SharedTarget ==
  CHOOSE q \in OtherConfigurations(props) : q.tableName = props.tableName

\* the instance that numbers another table from another key
SeparateTarget ==
  CHOOSE q \in OtherConfigurations(props) : q.tableName # props.tableName

\* the counter records kept under another key than that of instance q
OtherCounterRecords(q, tbls) ==
  { x \in tbls[q.counterTableName] : KeyOf(q.counterTableName, x) # q.counterTableKey }

\* the store without what the instances of Q wrote: their counter record and
\* the copies of their item in their target table
Without(tbls, Q) ==
  [t \in DOMAIN tbls |->
     { x \in tbls[t] :
         \A q \in Q :
           /\ ~(t = q.counterTableName /\ KeyOf(t, x) = q.counterTableKey)
           /\ ~(t = q.tableName /\ \A k \in DOMAIN OtherItem(q) :
                                      k \in DOMAIN x /\ x[k] = OtherItem(q)[k]) }]

\* a step of a put call of `props`
OwnStep == pc' # pc \/ settled' # settled

\* what the steps of the put calls of `props` read and obtain is what they
\* read and obtain from the store without the writes of the instances of Q
IndependentOf(Q) ==
  \A c \in Callers :
    /\ (pc[c] = "next" /\ pc'[c] = "commit") =>
         counter'[c] = getLast(props, Without(tables, Q))
    /\ (pc[c] = "commit" /\ ~Dangerously /\ settled'[c] # settled[c]) =>
         \A i \in DOMAIN puts[c] :
           settled'[c][i] = TransactWrite(Without(tables, Q), puts[c])
    /\ Dangerously =>
         \A i \in DOMAIN puts[c] :
           (i \in DOMAIN settled[c] /\ settled'[c] # settled[c]
              /\ settled[c][i] = "pending" /\ settled'[c][i] # "pending") =>
             settled'[c][i] = DocPut(Without(tables, Q), puts[c][i])

\* C35: a step of a put on counter key K leaves every counter record under
\* another key as it was, and a put on another key leaves the record of K as
\* it was; what a put on K reads and obtains does not depend on the puts of an
\* instance that numbers another target table from another key
C35_OtherKeysUntouched ==
  [][ /\ OwnStep =>
           OtherCounterRecords(props, tables') = OtherCounterRecords(props, tables)
      /\ ~OwnStep =>
           /\ Existing(tables', props.counterTableName, props.counterTableKey)
                = Existing(tables, props.counterTableName, props.counterTableKey)
           /\ \A q, r \in OtherConfigurations(props) :
                (q # r /\ getLast(q, tables') # getLast(q, tables)) =>
                  getLast(r, tables') = getLast(r, tables)
      /\ IndependentOf({SeparateTarget}) ]_vars

\* C35 as stated: what a put on K reads and obtains does not depend on the
\* puts made on any other counter key
C35_AsStated == [][ IndependentOf(OtherConfigurations(props)) ]_vars

\* a put on K has returned while both other keys hold a counter record, written
\* before the put on K read its counter
C35_Witness ==
  /\ \A q \in OtherConfigurations(props) : getLast(q, tables) # undefined
  /\ \E c \in Callers :
       /\ pc[c] = "returned"
       /\ \E v \in result[c] :
            /\ getLast(props, tables) = {v}
            /\ \E x \in tables[props.tableName] :
                 /\ x[props.attributeName] < v
                 /\ x.widgetName = "gadget"


\* ---------------------------------------------------------------- C36

\* the instance was built without one of the secondary-increment properties
Incomplete(p) ==
  \/ p.secondaryIncrementTableName = undefined
  \/ p.secondaryIncrementAttributeName = undefined
  \/ p.secondaryIncrementItemPrimaryKey = undefined
  \/ p.secondaryIncrementDefaultValue = undefined

\* the item lacks the configured primary-key field
LacksKey(p, it) ==
  /\ p.secondaryIncrementItemPrimaryKey # undefined
  /\ secondaryIncrementItemPrimaryKey(p) \notin DOMAIN it

\* call c of update or getLastPerItem is made in this step
Invoked(c) == pc[c] = "idle" /\ pc'[c] # "idle"

\* call c ends in this step with exception e, no store call issued, the store
\* as it was
FailsAtOnce(c, e) ==
  /\ pc'[c] = "failed"
  /\ error'[c] = e
  /\ reads'[c] = 0
  /\ settled'[c] = << >>
  /\ tables' = tables

\* only secondaryIncrementTableName was left out
OnlyTableNameMissing(p) ==
  useSecondaryIndexing(p) /\ p.secondaryIncrementTableName = undefined

\* C36: update and getLastPerItem fail in the step they are called in, with no
\* store call issued and the store unchanged, on an instance built without
\* secondaryIncrementAttributeName, secondaryIncrementItemPrimaryKey or
\* secondaryIncrementDefaultValue (Error) and for an item that lacks the
\* primary-key field (TypeError); on an instance built without
\* secondaryIncrementTableName alone the read is issued, the call never
\* returns a value and the store is unchanged
C36_PreconditionErrors ==
  [][ \A c \in Callers :
        /\ (Invoked(c) /\ ~useSecondaryIndexing(props)) => FailsAtOnce(c, "Error")
        /\ (Invoked(c) /\ useSecondaryIndexing(props) /\ LacksKey(props, item'[c])) =>
             FailsAtOnce(c, "TypeError")
        /\ (Invoked(c) /\ OnlyTableNameMissing(props) /\ ~LacksKey(props, item'[c])) =>
             /\ pc'[c] \in {"get", "getLastPerItem"}
             /\ reads'[c] = 1
        /\ OnlyTableNameMissing(props) =>
             /\ tables' = tables
             /\ pc'[c] # "returned"
             /\ pc'[c] = "failed" => error'[c] \in {"TypeError", "ValidationException"} ]_vars

\* C36 as stated: update and getLastPerItem, on an instance built without the
\* complete set of secondary-increment properties or with an item that lacks
\* the primary-key field, fail in the step they are called in, before any
\* store read or write is issued, and the store is unchanged
C36_AsStated ==
  [][ \A c \in Callers :
        (Invoked(c) /\ (Incomplete(props) \/ LacksKey(props, item'[c]))) =>
          \E e \in {"Error", "TypeError"} : FailsAtOnce(c, e) ]_vars

\* one call failed on the missing properties' check or on the item's missing
\* key without a store call, on an instance where the other call's read was
\* issued and refused by the store
C36_Witness ==
  \E c, d \in Callers :
    /\ pc[c] = "failed" /\ error[c] = "TypeError" /\ reads[c] = 0
    /\ pc[d] = "failed" /\ error[d] = "ValidationException" /\ reads[d] = 1
    /\ Incomplete(props)
    /\ tables.autoincrementField = initialItem

\* ---------------------------------------------------------------- C37

\* call c is an update whose getLastPerItem returned undefined
UntrackedUpdate(c) == puts[c] # << >> /\ counter[c] = undefined

\* the value of the tracked attribute on the entry in the target table
ItemVersions ==
  { x.version : x \in { y \in tables.widgets : "version" \in DOMAIN y } }

\* C37: update(item) on an entry without a tracked row takes
\* secondaryIncrementDefaultValue as the current counter and never returns:
\* its Update of the tracked row is conditional on the row holding that value,
\* so the safe call is cancelled and reads again, the unsafe call fails with
\* ConditionalCheckFailedException after its ItemUpdate was applied, and the
\* tracked row is never created
C37_UntrackedUpdateNeverReturns ==
  \A c \in Callers :
    UntrackedUpdate(c) =>
      /\ nextCounter[c] = secondaryIncrementDefaultValue(props) + 1
      /\ pc[c] # "returned"
      /\ tables.autoincrementField = {}
      /\ Safe => pc[c] \in {"get", "commit"}
      /\ (~Safe /\ pc[c] = "failed") =>
           /\ error[c] = "ConditionalCheckFailedException"
           /\ settled[c] = << "ConditionalCheckFailedException", "ok" >>
           /\ ItemVersions = {nextCounter[c]}

\* C37 as stated: once the attempt of an update on an entry without a tracked
\* row has settled, the call has returned secondaryIncrementDefaultValue + 1
\* and the tracked row holds that value
C37_AsStated ==
  \A c \in Callers :
    (UntrackedUpdate(c) /\ \A i \in DOMAIN settled[c] : settled[c][i] # "pending") =>
      /\ pc[c] = "returned"
      /\ result[c] = {secondaryIncrementDefaultValue(props) + 1}
      /\ getLastPerItem(props, item[c], tables) = result[c]

\* a safe update on an entry without a tracked row has been cancelled and has
\* read again as often as the model follows it
C37_Witness ==
  \E c \in Callers :
    /\ Safe
    /\ UntrackedUpdate(c)
    /\ reads[c] = MaxReads + 1
    /\ pc[c] = "get"
    /\ settled[c] = << "TransactionCanceledException", "TransactionCanceledException" >>

====
